---- MODULE Spec2Model ----
(***************************************************************************)
(* Model of pymodaq_plugins_trinamic: the device manager and controller of *)
(* hardware/trinamic.py, the local actuator plugin daq_move_Trinamic.py    *)
(* with its background position monitor, the target-reached check, and the *)
(* remote (LECO) actuator plugin daq_move_TrinamicLECO.py.                 *)
(*                                                                         *)
(* Several specifications share the variables:                             *)
(*   Spec        the life cycle of the local plugin: ini_stage, close, the *)
(*               baudrate change and the monitor threads;                  *)
(*   FairSpec    Spec with the fairness of close() and of the threads;     *)
(*   SpecMotion  ini_stage, move_abs, stop_motion and the moving axis;     *)
(*   SpecAxis    ini_stage and the microstep resolution setting;           *)
(*   SpecPoll    the timing of user_condition_to_reach_target;             *)
(*   SpecLeco    the remote plugin and its unit conversion;                *)
(*   SpecMoves   every motion handler of the local plugin and the axis;    *)
(*   SpecClosedLoop, FairClosedLoop  set_closed_loop_mode and its loop;    *)
(*   SpecDrive   the drive currents;                                       *)
(*   SpecManager the manager's connect and close called directly;          *)
(*   SpecFav     clean_fav_pos_dict on parsed favourite-position files.    *)
(*   SpecPresets the extension TrinamicPresets (trinamic_presets.py);      *)
(*   SpecEncoder, FairEncoder  the encoder-resolution detection;           *)
(*   SpecStop, FairStop  stop_motion of the remote plugin and the actor.   *)
(* Each leaves the variables it does not model unchanged.                  *)
(***************************************************************************)
EXTENDS Integers, Sequences, FiniteSets, TLC

(***************************************************************************)
(* Bounds of the model.                                                    *)
(***************************************************************************)
MaxMonitors == 3
MaxQueue == 2
MaxPos == 1
MaxOpened == 3
HistLen == 4
MaxStops == 2
MaxTime == 1000
Quantum == 50
MaxPollMoves == 2
MaxUnreported == 1
MaxClPolls == 2
MaxFavLen == 2
MaxChildren == 2

Positions == 0..MaxPos

Range(s) == {s[i] : i \in 1..Len(s)}

(***************************************************************************)
(* Settings of the local plugin (the params tree).                         *)
(***************************************************************************)
SelectedDevice == "COM1"
SettingMaxCurrent == 75
SettingStandbyCurrent == 8
SettingBoostCurrent == 0
SettingMaxVelocity == 100000
SettingMaxAcceleration == 15000000
SettingMicrostepResolution == "256"
MicrostepLabels == <<"Full", "Half", "4", "8", "16", "32", "64", "128", "256">>
\* a value commit_settings can be handed that is no label of the list
OtherLabel == "512"

possible_microstep_resolution ==
    << "MicrostepResolutionFullstep",
       "MicrostepResolutionHalfstep",
       "MicrostepResolution4Microsteps",
       "MicrostepResolution8Microsteps",
       "MicrostepResolution16Microsteps",
       "MicrostepResolution32Microsteps",
       "MicrostepResolution64Microsteps",
       "MicrostepResolution128Microsteps",
       "MicrostepResolution256Microsteps" >>

VARIABLES
    connections,      \* TrinamicManager.connections
    interface,        \* TrinamicManager.interface: port of the last opened handle, or "none"
    nOpened,          \* transport interfaces opened by connect so far
    lastConnect,      \* what the last TrinamicManager.connect call did
    controller,       \* DAQ_Move_Trinamic.controller: NoController or a TrinamicController
    motor,            \* the axis behind controller.motor (device state)
    hist,             \* the last HistLen commands written to the device
    monitors,         \* every PositionMonitor created, in creation order
    pos_worker,       \* index in monitors of self.pos_worker, 0 before the first
    posQueue,         \* position_updated signals queued for the plugin's thread
    encoder_position, \* settings.encoder.encoder_position
    pc,               \* where the plugin's thread is inside close()
    reinit,           \* close() was called by commit_settings('baudrate')
    outcome           \* the last handler run to its end, and how it ended

VARIABLES
    now,              \* wall clock, in ms
    reached,          \* the device's position-reached flag
    reachedAt,        \* when the flag became true, -1 while it is false
    moveStart,        \* when the pending move was issued
    pollCmds,         \* motion commands issued to the device
    chk               \* the running or last call of user_condition_to_reach_target

VARIABLES
    lecoInit,               \* the remote plugin went through ini_stage
    director_units_setting, \* settings.director_units
    director_units,         \* DAQ_Move_TrinamicLECO.director_units
    current_value,          \* the plugin's stored current value
    json,                   \* DAQ_Move_TrinamicLECO.json
    move_done_sig,          \* DAQ_Move_TrinamicLECO._move_done_sig
    data_publisher,         \* a data publisher was set up
    sent,                   \* the last call forwarded to the actor
    published,              \* the telemetry message the step just taken handed to the
                            \* publisher, NoMessage when it handed none
    unreported,             \* motion calls since the actor last reported a position
    lecoPc,                 \* where the plugin's thread is inside stop_motion()
    lecoOutcome             \* the last motion handler of the remote plugin run to its end

VARIABLES
    trace,            \* what the handler of the local plugin run last handed out, in
                      \* order: commands to the device and Qt signals
    mgrOpen,          \* ports whose connect succeeded with no close since (history)
    clMode,           \* the axis parameter ClosedLoopMode
    clFlag,           \* the axis parameter CLInitFlag, as the device reports it
    cl,               \* the running or last call of set_closed_loop_mode
    fav,              \* the last favourite-position file loaded and what became of it
    firstMsg          \* shape of the first message of the actor since ini_stage (history)

VARIABLES
    panel,            \* the TrinamicPresets extension: its actuator module, the presets
                      \* of its settings tree and what its last handler did
    enc,              \* the encoder settings, the axis parameters behind them and the
                      \* running or last commit_settings('detect_encoder')
    lecoOps,          \* what the step of the remote plugin just taken did towards the
                      \* actor ("send") and the publisher ("publish"), in order
    doneFresh         \* a set_move_done came in since the last stop request went out
                      \* (history)

localVars == << connections, interface, nOpened, lastConnect, controller, motor, hist,
                monitors, pos_worker, posQueue, encoder_position, pc, reinit, outcome >>

pollVars == << now, reached, reachedAt, moveStart, pollCmds, chk >>

lecoVars == << lecoInit, director_units_setting, director_units, current_value, json,
               move_done_sig, data_publisher, sent, published, unreported, lecoPc,
               lecoOutcome >>

bookVars == << trace, mgrOpen >>

clVars == << clMode, clFlag, cl >>

\* the preset panel, the encoder detection and the history of the remote plugin
moreVars == << panel, enc, lecoOps, doneFresh >>

vars == << localVars, pollVars, lecoVars, bookVars, clVars, fav, firstMsg, moreVars >>

NoController == [port |-> "none", module |-> FALSE, motor |-> FALSE, bound |-> FALSE]

\* TrinamicController.__init__: module and motor are None
NewController(port) == [port |-> port, module |-> FALSE, motor |-> FALSE, bound |-> TRUE]

\* the axis as the device powers up: nothing written by the plugin yet
PowerOnMotor ==
    [ actual |-> 0, target |-> 0, relopt |-> 0,
      max_current |-> 0, standby_current |-> 0, boost_current |-> 0,
      microstep_resolution |-> possible_microstep_resolution[9],
      max_velocity |-> 0, max_acceleration |-> 0 ]

(***************************************************************************)
(* TrinamicManager                                                         *)
(***************************************************************************)
\* connect that records the port although the open failed
ConnectRecordsAlways(conns, port, opens) ==
    [ connections |-> Append(conns, port), opened |-> opens, raised |-> FALSE ]

\* TrinamicManager.connect: `opens` is whether UsbTmclInterface(port) succeeds.
\* The except clause prints and returns, so nothing is raised to the caller.
Connect(conns, port, opens) ==
    IF opens
    THEN [ connections |-> Append(conns, port), opened |-> TRUE, raised |-> FALSE ]
    ELSE [ connections |-> conns, opened |-> FALSE, raised |-> FALSE ]

\* list.remove: the first occurrence
RemoveFirst(s, x) ==
    LET i == CHOOSE k \in 1..Len(s) : s[k] = x /\ \A j \in 1..(k - 1) : s[j] # x
    IN  SubSeq(s, 1, i - 1) \o SubSeq(s, i + 1, Len(s))

\* TrinamicManager.close
ManagerClose(conns, port) ==
    IF port \in Range(conns) THEN RemoveFirst(conns, port) ELSE conns

\* the ports the manager is called with
Ports == {"COM1", "COM2"}

\* a call of TrinamicManager.connect; `opens` is whether the interface can be opened
ManagerConnectCall(port, opens) ==
    /\ nOpened < MaxOpened
    /\ LET r == Connect(connections, port, opens)
       IN  /\ connections' = r.connections
           /\ lastConnect' = [port |-> port, opened |-> r.opened, raised |-> r.raised,
                              listedBefore |-> port \in Range(connections)]
           /\ interface' = IF r.opened THEN port ELSE interface
           /\ nOpened' = IF r.opened THEN nOpened + 1 ELSE nOpened
           /\ mgrOpen' = IF r.opened THEN mgrOpen \cup {port} ELSE mgrOpen
    /\ outcome' = [op |-> "manager.connect", arg |-> port, result |-> "ok"]
    /\ UNCHANGED << controller, motor, hist, monitors, pos_worker, posQueue,
                    encoder_position, pc, reinit, trace >>
    /\ UNCHANGED << pollVars, lecoVars, clVars, fav, firstMsg, moreVars >>

\* a call of TrinamicManager.close
ManagerCloseCall(port) ==
    /\ connections' = ManagerClose(connections, port)
    /\ mgrOpen' = mgrOpen \ {port}
    /\ outcome' = [op |-> "manager.close", arg |-> port,
                   result |-> IF port \in Range(connections)
                              THEN "removed" ELSE "no connection found"]
    /\ UNCHANGED << interface, nOpened, lastConnect, controller, motor, hist, monitors,
                    pos_worker, posQueue, encoder_position, pc, reinit, trace >>
    /\ UNCHANGED << pollVars, lecoVars, clVars, fav, firstMsg, moreVars >>

(***************************************************************************)
(* TrinamicController: the axis parameters                                 *)
(***************************************************************************)
\* a setter with an else branch that writes the value as it came
SetMicrostepResolutionElseWrites(m, value) ==
    IF \E i \in 1..9 : MicrostepLabels[i] = value
    THEN LET i == CHOOSE k \in 1..9 : MicrostepLabels[k] = value
         IN  [m EXCEPT !.microstep_resolution = possible_microstep_resolution[i]]
    ELSE [m EXCEPT !.microstep_resolution = value]

\* a setter whose chain is shifted by one entry of the list
SetMicrostepResolutionShifted(m, value) ==
    IF \E i \in 1..9 : MicrostepLabels[i] = value
    THEN LET i == CHOOSE k \in 1..9 : MicrostepLabels[k] = value
         IN  [m EXCEPT !.microstep_resolution =
                           possible_microstep_resolution[IF i = 9 THEN 1 ELSE i + 1]]
    ELSE m

\* the microstep_resolution setter: an if/elif chain over the nine labels, no else
SetMicrostepResolution(m, value) ==
    IF \E i \in 1..9 : MicrostepLabels[i] = value
    THEN LET i == CHOOSE k \in 1..9 : MicrostepLabels[k] = value
         IN  [m EXCEPT !.microstep_resolution = possible_microstep_resolution[i]]
    ELSE m

\* the microstep_resolution getter
GetMicrostepResolution(m) == m.microstep_resolution

Push(h, cmd) ==
    IF Len(h) < HistLen THEN Append(h, cmd) ELSE Append(Tail(h), cmd)

\* an initialization that leaves the ramp settings out
WriteSettingsNoRamp(m) ==
    LET d == [m EXCEPT !.max_current = SettingMaxCurrent,
                       !.standby_current = SettingStandbyCurrent,
                       !.boost_current = SettingBoostCurrent]
    IN  SetMicrostepResolution(d, SettingMicrostepResolution)

\* ini_stage, "Preparing drive settings" to "Preparing linear ramp settings"
WriteSettings(m) ==
    LET d == [m EXCEPT !.max_current = SettingMaxCurrent,
                       !.standby_current = SettingStandbyCurrent,
                       !.boost_current = SettingBoostCurrent]
        r == SetMicrostepResolution(d, SettingMicrostepResolution)
    IN  [r EXCEPT !.max_velocity = SettingMaxVelocity,
                  !.max_acceleration = SettingMaxAcceleration]

\* device initialization is finished: module and motor bound, the drive and the ramp
\* settings of the tree are on the device
InitFinished(c, m) ==
    /\ c.bound /\ c.module /\ c.motor
    /\ m.max_current = SettingMaxCurrent
    /\ m.standby_current = SettingStandbyCurrent
    /\ m.boost_current = SettingBoostCurrent
    /\ m.max_velocity = SettingMaxVelocity
    /\ m.max_acceleration = SettingMaxAcceleration

\* set_absolute_motion: RelativePositioningOption := 0
SetAbsoluteMotion(m) == [m EXCEPT !.relopt = 0]

\* move_to: motor.move_to(position, max_velocity)
MoveTo(m, position) == [m EXCEPT !.target = position]

\* stop: motor.stop()
Stop(m) == [m EXCEPT !.target = m.actual]

\* set_relative_motion: RelativePositioningOption := 1
SetRelativeMotion(m) == [m EXCEPT !.relopt = 1]

\* move_by: motor.move_by(difference, max_velocity); the axis adds the difference
\* to where it is
MoveBy(m, difference) == [m EXCEPT !.target = m.actual + difference]

\* a set_reference_position that also drives the axis to the new zero
SetReferencePositionAndGo(m) == [m EXCEPT !.actual = 0, !.target = 0]

\* set_reference_position: motor.actual_position = 0
SetReferencePosition(m) == [m EXCEPT !.actual = 0]

\* move_to_reference: self.move_to(0, self.motor.linear_ramp.max_velocity).  move_to
\* takes one argument besides self, so the call raises TypeError before anything is
\* written to the motor.
MoveToReference(m, h) ==
    [ motor |-> m, hist |-> h, trace |-> << >>, raised |-> "TypeError" ]

(***************************************************************************)
(* PositionMonitor.  hardware/trinamic.py does not define the class the    *)
(* plugin imports, so the worker follows the lifecycle of the design:      *)
(* Idle -> Running -> Stopping -> Stopped, stop() raising a flag the loop  *)
(* reads between samples, finished emitted as the loop is left.            *)
(***************************************************************************)
NewMonitor(initDone) ==
    [ st |-> "Idle", stopReq |-> 0, fin |-> 0, initDone |-> initDone ]

\* PositionMonitor.stop
MonitorStop(ms, i) ==
    IF i = 0 THEN ms ELSE [ms EXCEPT ![i].stopReq = IF @ < MaxStops THEN @ + 1 ELSE @]

Active(mon) == mon.st # "Stopped"

(***************************************************************************)
(* Initial state: the plugin constructed, nothing connected.               *)
(***************************************************************************)
InitLocal ==
    /\ connections = << >>
    /\ interface = "none"
    /\ nOpened = 0
    /\ lastConnect = [port |-> "none", opened |-> FALSE, raised |-> FALSE,
                      listedBefore |-> FALSE]
    /\ controller = NoController
    /\ motor = PowerOnMotor
    /\ hist = << >>
    /\ monitors = << >>
    /\ pos_worker = 0
    /\ posQueue = << >>
    /\ encoder_position = 0
    /\ pc = "idle"
    /\ reinit = FALSE
    /\ outcome = [op |-> "none", arg |-> "none", result |-> "ok"]

(***************************************************************************)
(* DAQ_Move_Trinamic                                                       *)
(***************************************************************************)
\* start_position_monitoring: a new thread and a new worker, whatever the old ones do
StartPositionMonitoring(ms, c, m) == Append(ms, NewMonitor(InitFinished(c, m)))

\* ini_stage.  `opens` is whether the transport interface can be opened.  The lookup
\* manager.connections.index(port) of the 'Establish connection' block raises when
\* connect did not list the port.
IniStage(opens) ==
    /\ UNCHANGED << pollVars, lecoVars, clVars, fav, firstMsg, moreVars >>
    /\ pc \in {"idle", "reinit"}
    /\ Len(monitors) < MaxMonitors
    /\ nOpened < MaxOpened
    /\ LET c0 == NewController(SelectedDevice)
           r  == Connect(connections, c0.port, opens)
       IN  /\ connections' = r.connections
           /\ lastConnect' = [port |-> c0.port, opened |-> r.opened, raised |-> r.raised,
                              listedBefore |-> c0.port \in Range(connections)]
           /\ interface' = IF r.opened THEN c0.port ELSE interface
           /\ nOpened' = IF r.opened THEN nOpened + 1 ELSE nOpened
           /\ mgrOpen' = IF r.opened THEN mgrOpen \cup {c0.port} ELSE mgrOpen
           /\ IF c0.port \notin Range(r.connections)
              THEN /\ controller' = c0
                   /\ outcome' = [op |-> "ini_stage", arg |-> "none",
                                  result |-> "raised"]
                   /\ UNCHANGED << motor, monitors, pos_worker >>
              ELSE /\ controller' = [c0 EXCEPT !.module = TRUE, !.motor = TRUE]
                   /\ motor' = WriteSettings(motor)
                   /\ monitors' = StartPositionMonitoring(monitors, controller', motor')
                   /\ pos_worker' = Len(monitors')
                   /\ outcome' = [op |-> "ini_stage", arg |-> "none",
                                  result |-> "initialized"]
    /\ pc' = "idle"
    /\ reinit' = FALSE
    /\ UNCHANGED << hist, posQueue, encoder_position, trace >>

\* close, up to manager.close(port); on a plugin without controller the first line
\* raises AttributeError
CloseBegin ==
    /\ UNCHANGED << pollVars, lecoVars, clVars, fav, firstMsg, moreVars >>
    /\ pc = "idle"
    /\ IF ~controller.bound
       THEN /\ outcome' = [op |-> "close", arg |-> "none", result |-> "AttributeError"]
            /\ UNCHANGED << connections, controller, pc, mgrOpen >>
       ELSE /\ connections' = ManagerClose(connections, controller.port)
            /\ mgrOpen' = mgrOpen \ {controller.port}
            /\ controller' = [controller EXCEPT !.port = ""]
            /\ pc' = "close_stop"
            /\ UNCHANGED outcome
    /\ UNCHANGED << interface, nOpened, lastConnect, motor, hist, monitors, pos_worker,
                    posQueue, encoder_position, reinit, trace >>

\* close: self.pos_worker.stop()
CloseStop ==
    /\ UNCHANGED << pollVars, lecoVars, clVars, fav, firstMsg, moreVars >>
    /\ UNCHANGED bookVars
    /\ pc = "close_stop"
    /\ monitors' = MonitorStop(monitors, pos_worker)
    /\ pc' = "close_wait"
    /\ UNCHANGED << connections, interface, nOpened, lastConnect, controller, motor, hist,
                    pos_worker, posQueue, encoder_position, reinit, outcome >>

\* close: pos_thread.quit(), pos_thread.wait() and the last two lines
CloseWait ==
    /\ UNCHANGED << pollVars, lecoVars, clVars, fav, firstMsg, moreVars >>
    /\ UNCHANGED bookVars
    /\ pc = "close_wait"
    /\ pos_worker # 0 => monitors[pos_worker].st = "Stopped"
    /\ controller' = NoController
    /\ outcome' = [op |-> "close", arg |-> "none", result |-> "ok"]
    /\ pc' = IF reinit THEN "reinit" ELSE "idle"
    /\ UNCHANGED << connections, interface, nOpened, lastConnect, motor, hist, monitors,
                    pos_worker, posQueue, encoder_position, reinit >>

\* commit_settings, name == 'baudrate': close(), then ini_stage() (the IniStage step
\* taken from pc = "reinit")
CommitBaudrate ==
    /\ UNCHANGED << pollVars, lecoVars, clVars, fav, firstMsg, moreVars >>
    /\ pc = "idle"
    /\ IF ~controller.bound
       THEN /\ outcome' = [op |-> "baudrate", arg |-> "none", result |-> "ok"]
            /\ UNCHANGED << connections, controller, pc, reinit, mgrOpen >>
       ELSE /\ connections' = ManagerClose(connections, controller.port)
            /\ mgrOpen' = mgrOpen \ {controller.port}
            /\ controller' = [controller EXCEPT !.port = ""]
            /\ pc' = "close_stop"
            /\ reinit' = TRUE
            /\ UNCHANGED outcome
    /\ UNCHANGED << interface, nOpened, lastConnect, motor, hist, monitors, pos_worker,
                    posQueue, encoder_position, trace >>

\* a motion command that is dropped while the axis has not reached its target
MoveAbsEffectDropsWhileMoving(m, h, position) ==
    IF m.actual # m.target
    THEN [motor |-> m, hist |-> h]
    ELSE [ motor |-> MoveTo(SetAbsoluteMotion(m), position),
           hist  |-> Push(Push(h, [op |-> "set_absolute_motion", arg |-> 0]),
                          [op |-> "move_to", arg |-> position]) ]

\* move_abs on the device: set_absolute_motion() then move_to(position); neither
\* the plugin nor the controller keeps a flag that could hold the command back
MoveAbsEffect(m, h, position) ==
    [ motor |-> MoveTo(SetAbsoluteMotion(m), position),
      hist  |-> Push(Push(h, [op |-> "set_absolute_motion", arg |-> 0]),
                     [op |-> "move_to", arg |-> position]) ]

\* move_abs (bounds and scaling of the host are off)
MoveAbs(position) ==
    /\ UNCHANGED << pollVars, lecoVars, clVars, fav, firstMsg, moreVars >>
    /\ pc = "idle"
    /\ IF controller.bound /\ controller.motor
       THEN LET e == MoveAbsEffect(motor, hist, position)
            IN  /\ motor' = e.motor
                /\ hist' = e.hist
                /\ trace' = << [op |-> "set_absolute_motion", arg |-> 0],
                               [op |-> "move_to", arg |-> position] >>
                /\ outcome' = [op |-> "move_abs", arg |-> position, result |-> "ok"]
       ELSE /\ outcome' = [op |-> "move_abs", arg |-> position,
                           result |-> "AttributeError"]
            /\ trace' = << >>
            /\ UNCHANGED << motor, hist >>
    /\ UNCHANGED << connections, interface, nOpened, lastConnect, controller, monitors,
                    pos_worker, posQueue, encoder_position, pc, reinit, mgrOpen >>

\* a stop_motion that reports the move done before it stops the axis
StopMotionEffectSignalsFirst(m, h) ==
    [ motor |-> Stop(m),
      hist  |-> Push(h, [op |-> "stop", arg |-> 0]),
      trace |-> << [op |-> "move_done", arg |-> 0], [op |-> "stop", arg |-> 0] >> ]

\* stop_motion on the device and towards the host: controller.stop(), then
\* self.move_done()
StopMotionEffect(m, h) ==
    [ motor |-> Stop(m),
      hist  |-> Push(h, [op |-> "stop", arg |-> 0]),
      trace |-> << [op |-> "stop", arg |-> 0], [op |-> "move_done", arg |-> 0] >> ]

\* stop_motion: controller.stop(), then move_done()
StopMotion ==
    /\ UNCHANGED << pollVars, lecoVars, clVars, fav, firstMsg, moreVars >>
    /\ pc = "idle"
    /\ IF controller.bound /\ controller.motor
       THEN LET e == StopMotionEffect(motor, hist)
            IN  /\ motor' = e.motor
                /\ hist' = e.hist
                /\ trace' = e.trace
                /\ outcome' = [op |-> "stop_motion", arg |-> "none", result |-> "ok"]
       ELSE /\ outcome' = [op |-> "stop_motion", arg |-> "none",
                           result |-> "AttributeError"]
            /\ trace' = << >>
            /\ UNCHANGED << motor, hist >>
    /\ UNCHANGED << connections, interface, nOpened, lastConnect, controller, monitors,
                    pos_worker, posQueue, encoder_position, pc, reinit, mgrOpen >>

\* move_rel (bounds and scaling of the host are off): set_relative_motion() then
\* move_by(position)
MoveRel(position) ==
    /\ UNCHANGED << pollVars, lecoVars, clVars, fav, firstMsg, moreVars >>
    /\ pc = "idle"
    /\ IF controller.bound /\ controller.motor
       THEN /\ motor.actual + position \in Positions
            /\ motor' = MoveBy(SetRelativeMotion(motor), position)
            /\ hist' = Push(Push(hist, [op |-> "set_relative_motion", arg |-> 1]),
                            [op |-> "move_by", arg |-> position])
            /\ trace' = << [op |-> "set_relative_motion", arg |-> 1],
                           [op |-> "move_by", arg |-> position] >>
            /\ outcome' = [op |-> "move_rel", arg |-> position, result |-> "ok"]
       ELSE /\ outcome' = [op |-> "move_rel", arg |-> position,
                           result |-> "AttributeError"]
            /\ trace' = << >>
            /\ UNCHANGED << motor, hist >>
    /\ UNCHANGED << connections, interface, nOpened, lastConnect, controller, monitors,
                    pos_worker, posQueue, encoder_position, pc, reinit, mgrOpen >>

\* move_home: target_value = 0, controller.move_to_reference(); the status line and
\* poll_moving() are reached only if the call returns
MoveHome ==
    /\ UNCHANGED << pollVars, lecoVars, clVars, fav, firstMsg, moreVars >>
    /\ pc = "idle"
    /\ IF controller.bound /\ controller.motor
       THEN LET e == MoveToReference(motor, hist)
            IN  /\ motor' = e.motor
                /\ hist' = e.hist
                /\ trace' = e.trace
                /\ outcome' = [op |-> "move_home", arg |-> 0, result |-> e.raised]
       ELSE /\ outcome' = [op |-> "move_home", arg |-> 0, result |-> "AttributeError"]
            /\ trace' = << >>
            /\ UNCHANGED << motor, hist >>
    /\ UNCHANGED << connections, interface, nOpened, lastConnect, controller, monitors,
                    pos_worker, posQueue, encoder_position, pc, reinit, mgrOpen >>

\* commit_settings, 'go_to_' in name, value True: the favourite's value is read from
\* the settings tree and handed to move_abs
GoToFavorite(target_value) ==
    /\ UNCHANGED << pollVars, lecoVars, clVars, fav, firstMsg, moreVars >>
    /\ pc = "idle"
    /\ IF controller.bound /\ controller.motor
       THEN LET e == MoveAbsEffect(motor, hist, target_value)
            IN  /\ motor' = e.motor
                /\ hist' = e.hist
                /\ trace' = << [op |-> "set_absolute_motion", arg |-> 0],
                               [op |-> "move_to", arg |-> target_value] >>
                /\ outcome' = [op |-> "go_to", arg |-> target_value, result |-> "ok"]
       ELSE /\ outcome' = [op |-> "go_to", arg |-> target_value,
                           result |-> "AttributeError"]
            /\ trace' = << >>
            /\ UNCHANGED << motor, hist >>
    /\ UNCHANGED << connections, interface, nOpened, lastConnect, controller, monitors,
                    pos_worker, posQueue, encoder_position, pc, reinit, mgrOpen >>

\* the flag the loop of set_closed_loop_mode waits for, whatever the mode asked for
ClosedLoopInitDoneWhenSet(flag, value) == flag = 1

\* set_closed_loop_mode: the loop is left when CLInitFlag reads 1 for value True and
\* 0 for value False
ClosedLoopInitDone(flag, value) == flag = (IF value THEN 1 ELSE 0)

\* commit_settings, name == 'closed_loop': controller.set_closed_loop_mode(value), up
\* to the write of ClosedLoopMode
CommitClosedLoop(value) ==
    /\ UNCHANGED << pollVars, lecoVars, fav, firstMsg, bookVars, moreVars >>
    /\ pc = "idle"
    /\ cl.pc = "idle"
    /\ IF controller.bound /\ controller.motor
       THEN /\ clMode' = (IF value THEN 1 ELSE 0)
            /\ hist' = Push(hist, [op |-> "ClosedLoopMode", arg |-> clMode'])
            /\ cl' = [pc |-> "polling", req |-> value, polls |-> 0, flagAtReturn |-> 0]
            /\ UNCHANGED outcome
       ELSE /\ outcome' = [op |-> "closed_loop", arg |-> value,
                           result |-> "AttributeError"]
            /\ UNCHANGED << clMode, hist, cl >>
    /\ UNCHANGED << connections, interface, nOpened, lastConnect, controller, motor,
                    monitors, pos_worker, posQueue, encoder_position, pc, reinit, clFlag >>

\* set_closed_loop_mode, one turn of the loop: read CLInitFlag, return or sleep 1 s.
\* The loop has no counter and no clock; polls only records the sleeps, up to a cap.
ClosedLoopPoll ==
    /\ UNCHANGED << pollVars, lecoVars, fav, firstMsg, bookVars, moreVars >>
    /\ cl.pc = "polling"
    /\ IF ClosedLoopInitDone(clFlag, cl.req)
       THEN /\ cl' = [cl EXCEPT !.pc = "idle", !.flagAtReturn = clFlag]
            /\ outcome' = [op |-> "closed_loop", arg |-> cl.req, result |-> "ok"]
       ELSE /\ cl' = [cl EXCEPT !.polls = IF @ < MaxClPolls THEN @ + 1 ELSE @]
            /\ UNCHANGED outcome
    /\ UNCHANGED << connections, interface, nOpened, lastConnect, controller, motor, hist,
                    monitors, pos_worker, posQueue, encoder_position, pc, reinit,
                    clMode, clFlag >>

\* the axis finishes switching the closed loop on or off, if it ever does
DeviceClosedLoopInit ==
    /\ UNCHANGED << pollVars, lecoVars, fav, firstMsg, bookVars, moreVars >>
    /\ clFlag # clMode
    /\ clFlag' = clMode
    /\ UNCHANGED << localVars, clMode, cl >>

\* upper limit of the three current parameters of the tree
CurrentLimit == 240

\* values a current can be written with: the ends of the range and the first values
\* beyond them
CurrentValues == {0 - 1, 0, CurrentLimit, CurrentLimit + 1}

CurrentNames == {"max_current", "standby_current", "boost_current"}

\* the max_current, standby_current and boost_current setters: the value goes to
\* motor.drive_settings as it came
SetCurrent(m, name, value) == [m EXCEPT ![name] = value]

\* commit_settings, name one of the three currents
CommitCurrent(name, value) ==
    /\ UNCHANGED << pollVars, lecoVars, clVars, fav, firstMsg, moreVars >>
    /\ UNCHANGED bookVars
    /\ pc = "idle"
    /\ IF controller.bound /\ controller.motor
       THEN /\ motor' = SetCurrent(motor, name, value)
            /\ outcome' = [op |-> name, arg |-> value, result |-> "ok"]
       ELSE /\ outcome' = [op |-> name, arg |-> value, result |-> "AttributeError"]
            /\ UNCHANGED motor
    /\ UNCHANGED << connections, interface, nOpened, lastConnect, controller, hist,
                    monitors, pos_worker, posQueue, encoder_position, pc, reinit >>

(***************************************************************************)
(* Favourite positions: clean_fav_pos_dict.  A parsed file is a container, *)
(* a list or a dict of entries; of an entry the model keeps the name (if   *)
(* it has one), the type and the children (if it has any).  The other      *)
(* fields are copied with a default and play no part in the names.         *)
(***************************************************************************)
\* str(idx) of a list index
Str(i) == << "0", "1", "2", "3", "4", "5", "6", "7", "8", "9" >>[i + 1]

\* the keys of a dict, in the order of the file
DictKey(i) == << "k1", "k2", "k3", "k4", "k5", "k6", "k7", "k8", "k9" >>[i]

SeqsUpTo(S, n) == UNION { [1..k -> S] : k \in 0..n }

NoChildren == [kind |-> "list", items |-> << >>]

NoFile == [kind |-> "none", items |-> << >>]

\* entries without children: one without a name, one named "a"
FavLeaves ==
    { [hasName |-> h, name |-> "a", type |-> "float", hasChildren |-> FALSE,
       children |-> NoChildren] : h \in BOOLEAN }

\* the children of a group: a list or a dict of leaves
FavChildren ==
    { [kind |-> k, items |-> t] :
          k \in {"list", "dict"}, t \in SeqsUpTo(FavLeaves, MaxChildren) }

\* groups, and one entry that has children but no type
FavGroups ==
    { [hasName |-> TRUE, name |-> "g", type |-> "group", hasChildren |-> TRUE,
       children |-> c] : c \in FavChildren }
    \cup
    { [hasName |-> FALSE, name |-> "", type |-> "missing", hasChildren |-> TRUE,
       children |-> [kind |-> "list", items |-> t]] : t \in SeqsUpTo(FavLeaves, 1) }

\* the parsed files: a list or a dict of entries, or something that is neither
FavFiles ==
    { [kind |-> k, items |-> t] :
          k \in {"list", "dict"}, t \in SeqsUpTo(FavLeaves \cup FavGroups, MaxFavLen) }
    \cup { [kind |-> "other", items |-> << >>] }

RECURSIVE clean_fav_pos_dict(_)

\* a loader that numbers the entries without a name from one
clean_fav_pos_dict_from_one(c) ==
    [ i \in 1..Len(c.items) |->
        LET attr == c.items[i]
            idx  == IF c.kind = "dict" THEN DictKey(i) ELSE Str(i)
            type == IF attr.type = "missing" THEN "str" ELSE attr.type
            withChildren == type = "group" /\ attr.hasChildren
        IN  [ name |-> IF attr.hasName THEN attr.name ELSE idx,
              type |-> type,
              hasChildren |-> withChildren,
              children |-> IF withChildren
                           THEN clean_fav_pos_dict([kind |-> "list",
                                                    items |-> attr.children.items])
                           ELSE << >> ] ]

\* clean_fav_pos_dict on a list or a dict: one param per entry, in the order of the
\* container; idx is the key of a dict and the index, from 0, of a list; children
\* are kept for type 'group' only, a dict of children being turned into the list of
\* its values first
clean_fav_pos_dict(c) ==
    [ i \in 1..Len(c.items) |->
        LET attr == c.items[i]
            idx  == IF c.kind = "dict" THEN DictKey(i) ELSE Str(i - 1)
            type == IF attr.type = "missing" THEN "str" ELSE attr.type
            withChildren == type = "group" /\ attr.hasChildren
        IN  [ name |-> IF attr.hasName THEN attr.name ELSE idx,
              type |-> type,
              hasChildren |-> withChildren,
              children |-> IF withChildren
                           THEN clean_fav_pos_dict([kind |-> "list",
                                                    items |-> attr.children.items])
                           ELSE << >> ] ]

\* a call of clean_fav_pos_dict on a parsed file; neither a dict nor a list raises
\* ValueError
CleanFavPosDict(file) ==
    /\ fav.result = "none"
    /\ fav' = IF file.kind \in {"list", "dict"}
              THEN [fav EXCEPT !.input = file, !.output = clean_fav_pos_dict(file),
                               !.result = "ok"]
              ELSE [fav EXCEPT !.input = file, !.result = "ValueError"]
    /\ UNCHANGED << localVars, pollVars, lecoVars, bookVars, clVars, firstMsg, moreVars >>

\* the same file handed to clean_fav_pos_dict a second time
CleanFavPosDictAgain ==
    /\ fav.result = "ok"
    /\ ~fav.reloaded
    /\ fav' = [fav EXCEPT !.again = clean_fav_pos_dict(fav.input), !.reloaded = TRUE]
    /\ UNCHANGED << localVars, pollVars, lecoVars, bookVars, clVars, firstMsg, moreVars >>

\* commit_settings, name == 'set_reference_position': with value True the counter is
\* zeroed and the push button reset (poll_moving only reads the position)
CommitSetReferencePosition(value) ==
    /\ UNCHANGED << pollVars, lecoVars, clVars, fav, firstMsg, moreVars >>
    /\ pc = "idle"
    /\ IF ~value
       THEN /\ outcome' = [op |-> "set_reference_position", arg |-> value,
                           result |-> "ok"]
            /\ UNCHANGED motor
       ELSE IF controller.bound /\ controller.motor
       THEN /\ motor' = SetReferencePosition(motor)
            /\ outcome' = [op |-> "set_reference_position", arg |-> value,
                           result |-> "ok"]
       ELSE /\ outcome' = [op |-> "set_reference_position", arg |-> value,
                           result |-> "AttributeError"]
            /\ UNCHANGED motor
    /\ trace' = << >>
    /\ UNCHANGED << connections, interface, nOpened, lastConnect, controller, hist,
                    monitors, pos_worker, posQueue, encoder_position, pc, reinit,
                    mgrOpen >>

\* commit_settings, name == 'microstep_resolution'
CommitMicrostepResolution(value) ==
    /\ UNCHANGED << pollVars, lecoVars, clVars, fav, firstMsg, moreVars >>
    /\ UNCHANGED bookVars
    /\ pc = "idle"
    /\ IF controller.bound /\ controller.motor
       THEN /\ motor' = SetMicrostepResolution(motor, value)
            /\ outcome' = [op |-> "microstep_resolution", arg |-> value, result |-> "ok"]
       ELSE /\ outcome' = [op |-> "microstep_resolution", arg |-> value,
                           result |-> "AttributeError"]
            /\ UNCHANGED motor
    /\ UNCHANGED << connections, interface, nOpened, lastConnect, controller, hist,
                    monitors, pos_worker, posQueue, encoder_position, pc, reinit >>

\* on_position_update: the queued position_updated signal reaches the plugin when its
\* thread is back in the event loop
OnPositionUpdate ==
    /\ UNCHANGED << pollVars, lecoVars, clVars, fav, firstMsg, moreVars >>
    /\ UNCHANGED bookVars
    /\ pc = "idle"
    /\ posQueue # << >>
    /\ encoder_position' = Head(posQueue).pos
    /\ posQueue' = Tail(posQueue)
    /\ UNCHANGED << connections, interface, nOpened, lastConnect, controller, motor, hist,
                    monitors, pos_worker, pc, reinit, outcome >>

(***************************************************************************)
(* The monitor threads                                                     *)
(***************************************************************************)
\* the thread started by pos_thread.start() enters PositionMonitor.run
MonitorBegin(i) ==
    /\ UNCHANGED << pollVars, lecoVars, clVars, fav, firstMsg, moreVars >>
    /\ UNCHANGED bookVars
    /\ monitors[i].st = "Idle"
    /\ monitors' = [monitors EXCEPT ![i].st = "Running"]
    /\ UNCHANGED << connections, interface, nOpened, lastConnect, controller, motor, hist,
                    pos_worker, posQueue, encoder_position, pc, reinit, outcome >>

\* one sample: read the position, emit position_updated
MonitorSample(i) ==
    /\ UNCHANGED << pollVars, lecoVars, clVars, fav, firstMsg, moreVars >>
    /\ UNCHANGED bookVars
    /\ monitors[i].st = "Running"
    /\ Len(posQueue) < MaxQueue
    /\ posQueue' = Append(posQueue, [from |-> i, pos |-> motor.actual])
    /\ UNCHANGED << connections, interface, nOpened, lastConnect, controller, motor, hist,
                    monitors, pos_worker, encoder_position, pc, reinit, outcome >>

\* the loop reads the stop flag between two samples
MonitorSeeStop(i) ==
    /\ UNCHANGED << pollVars, lecoVars, clVars, fav, firstMsg, moreVars >>
    /\ UNCHANGED bookVars
    /\ monitors[i].st = "Running"
    /\ monitors[i].stopReq > 0
    /\ monitors' = [monitors EXCEPT ![i].st = "Stopping"]
    /\ UNCHANGED << connections, interface, nOpened, lastConnect, controller, motor, hist,
                    pos_worker, posQueue, encoder_position, pc, reinit, outcome >>

\* a loop that emits finished inside the loop and again when it is left
MonitorExitTwice(i) ==
    /\ UNCHANGED << pollVars, lecoVars, clVars, fav, firstMsg, moreVars >>
    /\ UNCHANGED bookVars
    /\ monitors[i].st = "Stopping"
    /\ monitors' = [monitors EXCEPT ![i].st = "Stopped", ![i].fin = @ + 2]
    /\ UNCHANGED << connections, interface, nOpened, lastConnect, controller, motor, hist,
                    pos_worker, posQueue, encoder_position, pc, reinit, outcome >>

\* the loop is left: finished is emitted
MonitorExit(i) ==
    /\ UNCHANGED << pollVars, lecoVars, clVars, fav, firstMsg, moreVars >>
    /\ UNCHANGED bookVars
    /\ monitors[i].st = "Stopping"
    /\ monitors' = [monitors EXCEPT ![i].st = "Stopped", ![i].fin = @ + 1]
    /\ UNCHANGED << connections, interface, nOpened, lastConnect, controller, motor, hist,
                    pos_worker, posQueue, encoder_position, pc, reinit, outcome >>

(***************************************************************************)
(* The axis                                                                *)
(***************************************************************************)
\* the motor moves one step towards its target
DeviceStep ==
    /\ UNCHANGED << pollVars, lecoVars, clVars, fav, firstMsg, moreVars >>
    /\ UNCHANGED bookVars
    /\ motor.actual # motor.target
    /\ motor' = [motor EXCEPT !.actual = IF @ < motor.target THEN @ + 1 ELSE @ - 1]
    /\ UNCHANGED << connections, interface, nOpened, lastConnect, controller, hist,
                    monitors, pos_worker, posQueue, encoder_position, pc, reinit, outcome >>

(***************************************************************************)
(* Target-reached check: user_condition_to_reach_target and its timing.    *)
(* The host's polling loop calls the check again and again while a move is *)
(* pending; the check itself is one sleep and one read of the flag.        *)
(***************************************************************************)
SleepMs == 200
TimeoutSetting == 1000

InitPoll ==
    /\ now = 0
    /\ reached = TRUE
    /\ reachedAt = 0
    /\ moveStart = 0
    /\ pollCmds = 0
    /\ chk = [ pc |-> "idle", start |-> 0, pollAt |-> 0, retAt |-> 0, result |-> FALSE,
               cmdsAtCall |-> 0, polls |-> 0 ]

\* a check that sleeps no longer than 100 ms
WakeTimeCapped(start) == start + 100

\* a check that sleeps twice as long
WakeTimeLate(start) == start + SleepMs + SleepMs

\* QtCore.QThread.msleep(200)
WakeTime(start) == start + SleepMs

\* a check that sleeps again after it has read the flag
ReturnTimeSleepsAgain(readAt) == readAt + SleepMs

\* if get_position_reached(): return True / else: return False
ReturnTime(readAt) == readAt

\* a motion command reaches the device (move_abs, move_rel, move_home): the flag drops
PollMove ==
    /\ chk.pc # "sleeping"
    /\ pollCmds < MaxPollMoves
    /\ pollCmds' = pollCmds + 1
    /\ reached' = FALSE
    /\ reachedAt' = -1
    /\ moveStart' = now
    /\ chk' = [chk EXCEPT !.pc = "idle", !.polls = 0]
    /\ UNCHANGED now
    /\ UNCHANGED << localVars, lecoVars, bookVars, clVars, fav, firstMsg, moreVars >>

\* the axis arrives: the device raises its position-reached flag.  A flag that comes
\* up after the check has read it comes up at a later clock value.
DeviceReach ==
    /\ ~reached
    /\ ~(chk.pc = "done" /\ chk.pollAt = now)
    /\ reached' = TRUE
    /\ reachedAt' = now
    /\ UNCHANGED << now, moveStart, pollCmds, chk >>
    /\ UNCHANGED << localVars, lecoVars, bookVars, clVars, fav, firstMsg, moreVars >>

\* user_condition_to_reach_target is called and goes to sleep
PollCall ==
    /\ chk.pc # "sleeping"
    /\ WakeTime(now) <= MaxTime
    /\ chk' = [chk EXCEPT !.pc = "sleeping", !.start = now, !.cmdsAtCall = pollCmds]
    /\ UNCHANGED << now, reached, reachedAt, moveStart, pollCmds >>
    /\ UNCHANGED << localVars, lecoVars, bookVars, clVars, fav, firstMsg, moreVars >>

\* the sleep is over: the flag is read once and its value returned
PollRead ==
    /\ chk.pc = "sleeping"
    /\ now >= WakeTime(chk.start)
    /\ chk' = [chk EXCEPT !.pc = "done", !.pollAt = now, !.retAt = ReturnTime(now),
                          !.result = reached, !.polls = @ + 1]
    /\ UNCHANGED << now, reached, reachedAt, moveStart, pollCmds >>
    /\ UNCHANGED << localVars, lecoVars, bookVars, clVars, fav, firstMsg, moreVars >>

\* time passes, at most up to the moment the sleeping check wakes
Tick ==
    /\ now < MaxTime
    /\ ~(chk.pc = "sleeping" /\ now >= WakeTime(chk.start))
    /\ LET d == IF chk.pc = "sleeping" /\ WakeTime(chk.start) - now < Quantum
                THEN WakeTime(chk.start) - now
                ELSE Quantum
       IN  now' = IF now + d > MaxTime THEN MaxTime ELSE now + d
    /\ UNCHANGED << reached, reachedAt, moveStart, pollCmds, chk >>
    /\ UNCHANGED << localVars, lecoVars, bookVars, clVars, fav, firstMsg, moreVars >>

NextPoll ==
    \/ PollMove
    \/ DeviceReach
    \/ PollCall
    \/ PollRead
    \/ Tick

(***************************************************************************)
(* The remote plugin DAQ_Move_TrinamicLECO.                                *)
(*                                                                         *)
(* Positions are real numbers that the plugin only multiplies and divides  *)
(* by the unit factors 1e-3, 1e-6, 0.299792458 and 180/pi.  A number is    *)
(* kept exactly, as a sign and the exponents of the atoms 2, 3, 5,         *)
(* c = 149896229 and pi: 0.299792458 = c * 2^-8 * 5^-9 and                 *)
(* 180/pi = 2^2 * 3^2 * 5 * pi^-1.  Rounding of floats is not modelled.    *)
(***************************************************************************)
Atoms == {"2", "3", "5", "c", "pi"}

Num(sign, e2, e3, e5, ec, epi) ==
    [ sign |-> sign,
      e |-> [a \in Atoms |-> CASE a = "2" -> e2 [] a = "3" -> e3 [] a = "5" -> e5
                               [] a = "c" -> ec [] OTHER -> epi] ]

Zero == Num(0, 0, 0, 0, 0, 0)
One == Num(1, 0, 0, 0, 0, 0)
MinusOne == Num(-1, 0, 0, 0, 0, 0)
Million == Num(1, 6, 0, 6, 0, 0)
Millionth == Num(1, -6, 0, -6, 0, 0)

\* the positions a caller hands to move_abs and move_rel
Values == {Zero, One, MinusOne, Million, Millionth}

Mul(x, y) ==
    IF x.sign = 0 \/ y.sign = 0 THEN Zero
    ELSE [sign |-> x.sign * y.sign, e |-> [a \in Atoms |-> x.e[a] + y.e[a]]]

Div(x, y) ==
    IF x.sign = 0 THEN Zero
    ELSE [sign |-> x.sign * y.sign, e |-> [a \in Atoms |-> x.e[a] - y.e[a]]]

\* the units of the if/elif chains
SupportedUnits == {"mm", "um", "nm", "ps", "rad"}

\* 'limits' of the director_units parameter
UnitLimits == {"mm", "um", "nm", "ps", "deg", "rad"}

\* 1 (mm: the value is left alone), 1e-3, 1e-6, 0.299792458, 180 / np.pi
Factor(u) ==
    CASE u = "um"  -> Num(1, -3, 0, -3, 0, 0)
      [] u = "nm"  -> Num(1, -6, 0, -6, 0, 0)
      [] u = "ps"  -> Num(1, -8, 0, -9, 1, 0)
      [] u = "rad" -> Num(1, 2, 2, 1, 0, -1)
      [] OTHER     -> One

\* position = position * factor; no branch, no change
ToCanonical(v, u) == IF u \in SupportedUnits THEN Mul(v, Factor(u)) ELSE v

\* a conversion back that multiplies once more
ToDisplayMultiplies(c, u) == Mul(c, Factor(u))

\* current_value_metadata = current_value / factor, in the branches of the five units
ToDisplay(c, u) == Div(c, Factor(u))

\* self.current_value = self.current_value * factor, in the branches but 'mm'
ScaleStored(c, u) == IF u \in SupportedUnits THEN Mul(c, Factor(u)) ELSE c

NoMessage == [type |-> "none", current |-> Zero]

InitLeco ==
    /\ lecoInit = FALSE
    /\ director_units_setting = "microsteps"
    /\ director_units = "None"
    /\ current_value = Zero
    /\ json = FALSE
    /\ move_done_sig = FALSE
    /\ data_publisher = FALSE
    /\ sent = [op |-> "none", position |-> Zero]
    /\ published = NoMessage
    /\ unreported = 0
    /\ lecoPc = "idle"
    /\ lecoOutcome = [op |-> "none", arg |-> Zero, units |-> "None", result |-> "ok"]

\* the metadata block and the publication that end move_abs, move_rel, move_home and
\* stop_motion: with a unit of no branch current_value_metadata was never assigned
\* and reading it raises UnboundLocalError
Publish(type, u, cur) ==
    IF u \in SupportedUnits /\ data_publisher
    THEN [type |-> type, current |-> ToDisplay(cur, u)]
    ELSE NoMessage

\* what a handler did towards the publisher: send_data2 was called or not
PublishOps(msg) == IF msg = NoMessage THEN << >> ELSE << "publish" >>

\* move_abs and move_rel: controller.move_abs / move_rel first, the metadata block
\* and send_data2 after it
MoveOps(msg) == << "send" >> \o PublishOps(msg)

\* move_home: the metadata block and send_data2 first, controller.move_home() last;
\* with a unit of no branch the metadata block raises before either
MoveHomeOps(u, msg) ==
    IF u \in SupportedUnits THEN PublishOps(msg) \o << "send" >> ELSE << >>

Result(u) == IF u \in SupportedUnits THEN "ok" ELSE "UnboundLocalError"

\* ini_stage of the remote plugin; `named` is whether a publisher name is set
LecoIniStage(named) ==
    /\ UNCHANGED unreported
    /\ lecoPc = "idle"
    /\ lecoInit' = TRUE
    /\ json' = FALSE
    /\ firstMsg' = "none"
    /\ director_units' = director_units_setting
    /\ data_publisher' = (data_publisher \/ named)
    /\ published' = NoMessage
    /\ UNCHANGED << director_units_setting, current_value, move_done_sig, sent, lecoPc,
                    lecoOutcome >>
    /\ UNCHANGED << localVars, pollVars, bookVars, clVars, fav, panel, enc >>
    /\ lecoOps' = << >>
    /\ UNCHANGED doneFresh

\* commit_settings, name == 'director_units'
LecoCommitUnits(u) ==
    /\ UNCHANGED unreported
    /\ lecoPc = "idle"
    /\ director_units_setting' = u
    /\ director_units' = u
    /\ published' = NoMessage
    /\ UNCHANGED << lecoInit, current_value, json, move_done_sig, data_publisher, sent,
                    lecoPc, lecoOutcome >>
    /\ UNCHANGED << localVars, pollVars, bookVars, clVars, fav, panel, enc >>
    /\ lecoOps' = << >>
    /\ UNCHANGED doneFresh
    /\ UNCHANGED firstMsg

\* move_abs (bounds and scaling are hidden and off)
LecoMoveAbs(position) ==
    /\ lecoPc = "idle" /\ lecoInit
    /\ unreported < MaxUnreported
    /\ unreported' = unreported + 1
    /\ sent' = [op |-> "move_abs", position |-> ToCanonical(position, director_units)]
    /\ current_value' = ScaleStored(current_value, director_units)
    /\ published' = Publish("move_start", director_units, current_value)
    /\ lecoOutcome' = [op |-> "move_abs", arg |-> position, units |-> director_units,
                       result |-> Result(director_units)]
    /\ UNCHANGED << lecoInit, director_units_setting, director_units, json,
                    move_done_sig, data_publisher, lecoPc >>
    /\ UNCHANGED << localVars, pollVars, bookVars, clVars, fav, panel, enc >>
    /\ lecoOps' = MoveOps(published')
    /\ UNCHANGED doneFresh
    /\ UNCHANGED firstMsg

\* move_rel: check_bound(current + position) - current is position again
LecoMoveRel(position) ==
    /\ lecoPc = "idle" /\ lecoInit
    /\ unreported < MaxUnreported
    /\ unreported' = unreported + 1
    /\ sent' = [op |-> "move_rel", position |-> ToCanonical(position, director_units)]
    /\ current_value' = ScaleStored(current_value, director_units)
    /\ published' = Publish("move_start", director_units, current_value)
    /\ lecoOutcome' = [op |-> "move_rel", arg |-> position, units |-> director_units,
                       result |-> Result(director_units)]
    /\ UNCHANGED << lecoInit, director_units_setting, director_units, json,
                    move_done_sig, data_publisher, lecoPc >>
    /\ UNCHANGED << localVars, pollVars, bookVars, clVars, fav, panel, enc >>
    /\ lecoOps' = MoveOps(published')
    /\ UNCHANGED doneFresh
    /\ UNCHANGED firstMsg

\* move_home: the metadata block comes first, controller.move_home() last
LecoMoveHome ==
    /\ lecoPc = "idle" /\ lecoInit
    /\ unreported < MaxUnreported
    /\ unreported' = unreported + 1
    /\ IF director_units \in SupportedUnits
       THEN /\ sent' = [op |-> "move_home", position |-> Zero]
            /\ current_value' = ScaleStored(current_value, director_units)
            /\ published' = Publish("move_start", director_units, current_value)
       ELSE /\ published' = NoMessage
            /\ UNCHANGED << sent, current_value >>
    /\ lecoOutcome' = [op |-> "move_home", arg |-> Zero, units |-> director_units,
                       result |-> Result(director_units)]
    /\ UNCHANGED << lecoInit, director_units_setting, director_units, json,
                    move_done_sig, data_publisher, lecoPc >>
    /\ UNCHANGED << localVars, pollVars, bookVars, clVars, fav, panel, enc >>
    /\ lecoOps' = MoveHomeOps(director_units, published')
    /\ UNCHANGED doneFresh
    /\ UNCHANGED firstMsg

\* stop_motion: controller.stop_motion(), then the loop on _move_done_sig
LecoStopBegin ==
    /\ lecoPc = "idle" /\ lecoInit
    /\ unreported < MaxUnreported
    /\ unreported' = unreported + 1
    /\ sent' = [op |-> "stop_motion", position |-> Zero]
    /\ lecoPc' = "stop_wait"
    /\ published' = NoMessage
    /\ UNCHANGED << lecoInit, director_units_setting, director_units, current_value, json,
                    move_done_sig, data_publisher, lecoOutcome >>
    /\ UNCHANGED << localVars, pollVars, bookVars, clVars, fav, panel, enc >>
    /\ lecoOps' = << "send" >>
    /\ doneFresh' = FALSE
    /\ UNCHANGED firstMsg

\* stop_motion: the loop is left, the metadata block follows
LecoStopEnd ==
    /\ UNCHANGED unreported
    /\ lecoPc = "stop_wait"
    /\ move_done_sig
    /\ current_value' = ScaleStored(current_value, director_units)
    /\ published' = Publish("move_stop", director_units, current_value)
    /\ lecoOutcome' = [op |-> "stop_motion", arg |-> Zero, units |-> director_units,
                       result |-> Result(director_units)]
    /\ lecoPc' = "idle"
    /\ UNCHANGED << lecoInit, director_units_setting, director_units, json,
                    move_done_sig, data_publisher, sent >>
    /\ UNCHANGED << localVars, pollVars, bookVars, clVars, fav, panel, enc >>
    /\ lecoOps' = PublishOps(published')
    /\ UNCHANGED doneFresh
    /\ UNCHANGED firstMsg

\* the position the actor reports: where it was sent last
ActorValues == {sent.position}

\* send_position, called by the actor: _set_position_value
LecoSendPosition(pos, asJson) ==
    /\ lecoInit
    /\ current_value' = pos
    /\ unreported' = 0
    /\ json' = (json \/ asJson)
    /\ firstMsg' = IF firstMsg # "none" THEN firstMsg
                   ELSE IF asJson THEN "json" ELSE "binary"
    /\ published' = NoMessage
    /\ UNCHANGED << lecoInit, director_units_setting, director_units, move_done_sig,
                    data_publisher, sent, lecoPc, lecoOutcome >>
    /\ UNCHANGED << localVars, pollVars, bookVars, clVars, fav, panel, enc >>
    /\ lecoOps' = << >>
    /\ UNCHANGED doneFresh

\* a set_move_done that does not raise _move_done_sig
LecoSetMoveDoneKeepsFlag(pos, asJson) ==
    /\ lecoInit
    /\ current_value' = pos
    /\ unreported' = 0
    /\ json' = (json \/ asJson)
    /\ firstMsg' = IF firstMsg # "none" THEN firstMsg
                   ELSE IF asJson THEN "json" ELSE "binary"
    /\ UNCHANGED move_done_sig
    /\ published' = IF data_publisher
                    THEN [type |-> "move_done", current |-> pos]
                    ELSE NoMessage
    /\ UNCHANGED << lecoInit, director_units_setting, director_units, data_publisher,
                    sent, lecoPc, lecoOutcome >>
    /\ UNCHANGED << localVars, pollVars, bookVars, clVars, fav, panel, enc >>
    /\ lecoOps' = PublishOps(published')
    /\ doneFresh' = TRUE

\* set_move_done, called by the actor
LecoSetMoveDone(pos, asJson) ==
    /\ lecoInit
    /\ current_value' = pos
    /\ unreported' = 0
    /\ json' = (json \/ asJson)
    /\ firstMsg' = IF firstMsg # "none" THEN firstMsg
                   ELSE IF asJson THEN "json" ELSE "binary"
    /\ move_done_sig' = TRUE
    /\ published' = IF data_publisher
                    THEN [type |-> "move_done", current |-> pos]
                    ELSE NoMessage
    /\ UNCHANGED << lecoInit, director_units_setting, director_units, data_publisher,
                    sent, lecoPc, lecoOutcome >>
    /\ UNCHANGED << localVars, pollVars, bookVars, clVars, fav, panel, enc >>
    /\ lecoOps' = PublishOps(published')
    /\ doneFresh' = TRUE

NextLeco ==
    \/ \E named \in BOOLEAN : LecoIniStage(named)
    \/ \E u \in UnitLimits : LecoCommitUnits(u)
    \/ \E v \in Values : LecoMoveAbs(v)
    \/ \E v \in Values : LecoMoveRel(v)
    \/ LecoMoveHome
    \/ LecoStopBegin
    \/ LecoStopEnd
    \/ \E pos \in ActorValues, asJson \in BOOLEAN : LecoSendPosition(pos, asJson)
    \/ \E pos \in ActorValues, asJson \in BOOLEAN : LecoSetMoveDone(pos, asJson)

(***************************************************************************)
(* The extension TrinamicPresets: four presets and their buttons.          *)
(***************************************************************************)
\* range(1, 5)
NPresets == 4
Presets == 1..NPresets

\* 'value' of the position parameters: 0.0, 1000.0, 2000.0, 3000.0
DefaultPosition(i) == (i - 1) * 1000

\* the positions a user types into a preset
PresetValues == {0, 1000}

\* __init__: actuator_module is None, the settings tree holds the defaults
InitPresets ==
    panel = [ actuator_module |-> FALSE,
              enabled  |-> [i \in Presets |-> TRUE],
              position |-> [i \in Presets |-> DefaultPosition(i)],
              call     |-> [op |-> "none", preset |-> 0],
              issued   |-> << >>,
              log      |-> "info" ]

\* a goto_preset that does not look at the preset's enabled parameter
GotoPresetEffectIgnoresEnabled(module, enabled, target_position) ==
    IF ~module THEN << >> ELSE << [op |-> "move_abs", arg |-> target_position] >>

\* goto_preset: the calls made on the actuator module.  Both early returns come
\* before the only move_abs.
GotoPresetEffect(module, enabled, target_position) ==
    IF ~module THEN << >>
    ELSE IF ~enabled THEN << >>
    ELSE << [op |-> "move_abs", arg |-> target_position] >>

\* refresh_actuator; `found` is what get_mod_from_name does: it returns the module,
\* returns None or raises
RefreshActuator(found) ==
    /\ panel' = [panel EXCEPT
                    !.actuator_module = IF found = "raises" THEN @ ELSE found = "module",
                    !.call = [op |-> "refresh_actuator", preset |-> 0],
                    !.issued = << >>,
                    !.log = CASE found = "module" -> "info"
                              [] found = "none" -> "warning"
                              [] OTHER -> "error"]
    /\ UNCHANGED << localVars, pollVars, lecoVars, bookVars, clVars, fav, firstMsg,
                    enc, lecoOps, doneFresh >>

\* the user changes a preset's enabled parameter; value_changed only refreshes
\* the buttons
SetPresetEnabled(i, value) ==
    /\ panel.enabled[i] # value
    /\ panel' = [panel EXCEPT !.enabled[i] = value,
                              !.call = [op |-> "value_changed", preset |-> i],
                              !.issued = << >>]
    /\ UNCHANGED << localVars, pollVars, lecoVars, bookVars, clVars, fav, firstMsg,
                    enc, lecoOps, doneFresh >>

\* the user changes a preset's position parameter
SetPresetPosition(i, value) ==
    /\ panel.position[i] # value
    /\ panel' = [panel EXCEPT !.position[i] = value,
                              !.call = [op |-> "value_changed", preset |-> i],
                              !.issued = << >>]
    /\ UNCHANGED << localVars, pollVars, lecoVars, bookVars, clVars, fav, firstMsg,
                    enc, lecoOps, doneFresh >>

\* goto_preset; `raises` is whether the module's move_abs raises (the except
\* clause logs the error)
GotoPreset(preset_num, raises) ==
    /\ LET e == GotoPresetEffect(panel.actuator_module, panel.enabled[preset_num],
                                 panel.position[preset_num])
       IN  panel' = [panel EXCEPT
                        !.call = [op |-> "goto_preset", preset |-> preset_num],
                        !.issued = e,
                        !.log = IF e = << >> THEN "warning"
                                ELSE IF raises THEN "error" ELSE "info"]
    /\ UNCHANGED << localVars, pollVars, lecoVars, bookVars, clVars, fav, firstMsg,
                    enc, lecoOps, doneFresh >>

\* stop_motion of the extension (the emergency stop button)
PresetsStopMotion(raises) ==
    /\ panel' = [panel EXCEPT
                    !.call = [op |-> "stop_motion", preset |-> 0],
                    !.issued = IF panel.actuator_module
                               THEN << [op |-> "stop_motion", arg |-> 0] >> ELSE << >>,
                    !.log = IF ~panel.actuator_module THEN "warning"
                            ELSE IF raises THEN "error" ELSE "warning"]
    /\ UNCHANGED << localVars, pollVars, lecoVars, bookVars, clVars, fav, firstMsg,
                    enc, lecoOps, doneFresh >>

NextPresets ==
    \/ \E found \in {"module", "none", "raises"} : RefreshActuator(found)
    \/ \E i \in Presets, value \in BOOLEAN : SetPresetEnabled(i, value)
    \/ \E i \in Presets, value \in PresetValues : SetPresetPosition(i, value)
    \/ \E i \in Presets, raises \in BOOLEAN : GotoPreset(i, raises)
    \/ \E raises \in BOOLEAN : PresetsStopMotion(raises)

(***************************************************************************)
(* commit_settings('detect_encoder').  timeout is a Python float: a double *)
(* is kept exactly, as a multiple of 2^-56 written in three limbs of 20    *)
(* bits, lowest first, and an addition rounds its exact sum to 53          *)
(* significant bits, ties to even, as IEEE 754 does.                       *)
(***************************************************************************)
Limb == 2^20

\* the literal 0.1: 7205759403792794 * 2^-56
Tenth == << 629146, 629145, 6553 >>

\* the literal 5
Five == << 0, 0, 327680 >>

\* timeout = 0
FloatZero == << 0, 0, 0 >>

\* the exact sum of two multiples of 2^-56
LimbAdd(a, b) ==
    LET s1 == a[1] + b[1]
        s2 == a[2] + b[2] + (s1 \div Limb)
        s3 == a[3] + b[3] + (s2 \div Limb)
    IN  << s1 % Limb, s2 % Limb, s3 >>

\* number of significant bits of a limb
BitLen(x) == IF x = 0 THEN 0 ELSE CHOOSE k \in 1..31 : 2^(k - 1) <= x /\ x < 2^k

\* round to 53 significant bits, ties to even
Round53(v) ==
    LET n == IF v[3] > 0 THEN 40 + BitLen(v[3])
             ELSE IF v[2] > 0 THEN 20 + BitLen(v[2]) ELSE BitLen(v[1])
        d == IF n > 53 THEN n - 53 ELSE 0
        unit == 2^d
        r == v[1] % unit
        kept == << v[1] - r, v[2], v[3] >>
        odd == (v[1] \div unit) % 2 = 1
        up == d > 0 /\ (2 * r > unit \/ (2 * r = unit /\ odd))
    IN  IF up THEN LimbAdd(kept, << unit, 0, 0 >>) ELSE kept

\* timeout += 0.1
FloatAdd(a, b) == Round53(LimbAdd(a, b))

\* timeout >= 5
FloatGeq(a, b) ==
    \/ a[3] > b[3]
    \/ a[3] = b[3] /\ a[2] > b[2]
    \/ a[3] = b[3] /\ a[2] = b[2] /\ a[1] >= b[1]

\* 'value' of encoder_resolution in the params tree
DefaultEncoderResolution == 1000

\* the resolutions an encoder can have, and a user can type
EncoderResolutions == {2000, 4000}

InitEncoder ==
    enc = [ pc |-> "idle",
            detect_encoder |-> FALSE,
            encoder_resolution |-> DefaultEncoderResolution,
            before |-> DefaultEncoderResolution,
            initialization |-> 0,
            resolution |-> DefaultEncoderResolution,
            timeout |-> FloatZero,
            sleeps |-> 0,
            status |-> "none",
            result |-> "none" ]

\* commit_settings, name == 'detect_encoder': up to the loop.  The push button has
\* set the parameter to `value` before the handler runs.
CommitDetectEncoder(value) ==
    /\ pc = "idle" /\ enc.pc = "idle"
    /\ IF ~value
       THEN enc' = [enc EXCEPT !.detect_encoder = FALSE, !.result = "none",
                               !.sleeps = 0, !.timeout = FloatZero]
       ELSE IF controller.bound /\ controller.motor
       THEN enc' = [enc EXCEPT !.detect_encoder = TRUE,
                               !.before = enc.encoder_resolution,
                               !.status = "Detecting encoder resolution",
                               !.initialization = 1,
                               !.timeout = FloatZero,
                               !.sleeps = 0,
                               !.result = "none",
                               !.pc = "polling"]
       ELSE enc' = [enc EXCEPT !.detect_encoder = TRUE,
                               !.status = "Detecting encoder resolution",
                               !.sleeps = 0, !.timeout = FloatZero,
                               !.result = "AttributeError"]
    /\ UNCHANGED << localVars, pollVars, lecoVars, bookVars, clVars, fav, firstMsg,
                    panel, lecoOps, doneFresh >>

\* one turn of the while loop, or the lines after it
EncoderPoll ==
    /\ enc.pc = "polling"
    /\ IF enc.initialization = 2
       THEN enc' = [enc EXCEPT !.encoder_resolution = enc.resolution,
                               !.detect_encoder = FALSE,
                               !.status = "Encoder resolution",
                               !.result = "detected",
                               !.pc = "idle"]
       ELSE LET t == FloatAdd(enc.timeout, Tenth)
            IN  IF FloatGeq(t, Five)
                THEN enc' = [enc EXCEPT !.timeout = t,
                                        !.sleeps = @ + 1,
                                        !.status = "Timeout while detecting encoder resolution",
                                        !.detect_encoder = FALSE,
                                        !.result = "timeout",
                                        !.pc = "idle"]
                ELSE enc' = [enc EXCEPT !.timeout = t, !.sleeps = @ + 1]
    /\ UNCHANGED << localVars, pollVars, lecoVars, bookVars, clVars, fav, firstMsg,
                    panel, lecoOps, doneFresh >>

\* the axis finishes the encoder initialization, if it ever does
DeviceEncoderInit(r) ==
    /\ enc.initialization = 1
    /\ enc' = [enc EXCEPT !.initialization = 2, !.resolution = r]
    /\ UNCHANGED << localVars, pollVars, lecoVars, bookVars, clVars, fav, firstMsg,
                    panel, lecoOps, doneFresh >>

\* commit_settings, name == 'encoder_resolution' (the limits keep value above 0)
CommitEncoderResolution(value) ==
    /\ pc = "idle" /\ enc.pc = "idle"
    /\ enc.encoder_resolution # value
    /\ IF controller.bound /\ controller.motor
       THEN /\ enc' = [enc EXCEPT !.encoder_resolution = value,
                                  !.resolution = IF value > 0 THEN value ELSE @,
                                  !.result = "none"]
            /\ encoder_position' = IF value > 0 THEN 0 ELSE encoder_position
            /\ outcome' = [op |-> "encoder_resolution", arg |-> value, result |-> "ok"]
       ELSE /\ enc' = [enc EXCEPT !.encoder_resolution = value, !.result = "none"]
            /\ outcome' = [op |-> "encoder_resolution", arg |-> value,
                           result |-> "AttributeError"]
            /\ UNCHANGED encoder_position
    /\ UNCHANGED << connections, interface, nOpened, lastConnect, controller, motor, hist,
                    monitors, pos_worker, posQueue, pc, reinit >>
    /\ UNCHANGED << pollVars, lecoVars, bookVars, clVars, fav, firstMsg,
                    panel, lecoOps, doneFresh >>

NextEncoder ==
    \/ \E opens \in BOOLEAN : enc.pc = "idle" /\ IniStage(opens)
    \/ \E value \in BOOLEAN : CommitDetectEncoder(value)
    \/ EncoderPoll
    \/ \E r \in EncoderResolutions : DeviceEncoderInit(r)
    \/ \E value \in EncoderResolutions : CommitEncoderResolution(value)

\* no handler has run, no closed-loop call, no favourite file loaded, no message
InitMore ==
    /\ trace = << >>
    /\ mgrOpen = {}
    /\ clMode = 0
    /\ clFlag = 0
    /\ cl = [pc |-> "idle", req |-> 0, polls |-> 0, flagAtReturn |-> 0]
    /\ fav = [input |-> NoFile, output |-> << >>, result |-> "none", again |-> << >>,
              reloaded |-> FALSE]
    /\ firstMsg = "none"
    /\ lecoOps = << >>
    /\ doneFresh = FALSE

Init == InitLocal /\ InitPoll /\ InitLeco /\ InitMore /\ InitPresets /\ InitEncoder

\* the plugin's life cycle, the manager and the monitor threads
Next ==
    \/ \E opens \in BOOLEAN : IniStage(opens)
    \/ CloseBegin
    \/ CloseStop
    \/ CloseWait
    \/ CommitBaudrate
    \/ OnPositionUpdate
    \/ \E i \in 1..Len(monitors) : MonitorBegin(i)
    \/ \E i \in 1..Len(monitors) : MonitorSample(i)
    \/ \E i \in 1..Len(monitors) : MonitorSeeStop(i)
    \/ \E i \in 1..Len(monitors) : MonitorExit(i)

Spec == Init /\ [][Next]_vars

\* the monitor threads and the plugin's thread are scheduled by the operating system
FairSpec ==
    /\ Spec
    /\ WF_vars(CloseStop)
    /\ WF_vars(CloseWait)
    /\ \A i \in 1..MaxMonitors :
          /\ WF_vars(i <= Len(monitors) /\ MonitorBegin(i))
          /\ WF_vars(i <= Len(monitors) /\ MonitorSeeStop(i))
          /\ WF_vars(i <= Len(monitors) /\ MonitorExit(i))

\* motion commands on an initialized (or not initialized) plugin
NextMotion ==
    \/ \E opens \in BOOLEAN : IniStage(opens)
    \/ \E p \in Positions : MoveAbs(p)
    \/ StopMotion
    \/ DeviceStep

SpecMotion == Init /\ [][NextMotion]_vars

\* the axis parameters
NextAxis ==
    \/ \E opens \in BOOLEAN : IniStage(opens)
    \/ \E v \in Range(MicrostepLabels) \cup {OtherLabel} : CommitMicrostepResolution(v)

SpecAxis == Init /\ [][NextAxis]_vars

SpecPoll == Init /\ [][NextPoll]_vars

SpecLeco == Init /\ [][NextLeco]_vars

\* every motion handler of the local plugin, and the axis
NextMoves ==
    \/ \E opens \in BOOLEAN : IniStage(opens)
    \/ \E p \in Positions : MoveAbs(p)
    \/ \E d \in (0 - MaxPos)..MaxPos : MoveRel(d)
    \/ MoveHome
    \/ \E p \in Positions : GoToFavorite(p)
    \/ \E value \in BOOLEAN : CommitSetReferencePosition(value)
    \/ StopMotion
    \/ DeviceStep

SpecMoves == Init /\ [][NextMoves]_vars

\* loading favourite positions
NextFav ==
    \/ fav.result = "none" /\ \E file \in FavFiles : CleanFavPosDict(file)
    \/ CleanFavPosDictAgain

SpecFav == Init /\ [][NextFav]_vars

\* the manager called directly
NextManager ==
    \/ \E port \in Ports, opens \in BOOLEAN : ManagerConnectCall(port, opens)
    \/ \E port \in Ports : ManagerCloseCall(port)

SpecManager == Init /\ [][NextManager]_vars

\* the drive currents
NextDrive ==
    \/ \E opens \in BOOLEAN : IniStage(opens)
    \/ \E name \in CurrentNames, value \in CurrentValues : CommitCurrent(name, value)

SpecDrive == Init /\ [][NextDrive]_vars

\* switching the closed loop; set_closed_loop_mode blocks the plugin's thread
NextClosedLoop ==
    \/ \E opens \in BOOLEAN : cl.pc = "idle" /\ IniStage(opens)
    \/ \E value \in BOOLEAN : CommitClosedLoop(value)
    \/ ClosedLoopPoll
    \/ DeviceClosedLoopInit

SpecClosedLoop == Init /\ [][NextClosedLoop]_vars

\* the thread inside set_closed_loop_mode keeps running; nothing makes the axis finish
FairClosedLoop == SpecClosedLoop /\ WF_vars(ClosedLoopPoll)

\* stop_motion of the remote plugin and the messages of the actor
NextStop ==
    \/ \E named \in BOOLEAN : LecoIniStage(named)
    \/ \E u \in UnitLimits : LecoCommitUnits(u)
    \/ LecoStopBegin
    \/ LecoStopEnd
    \/ \E pos \in ActorValues, asJson \in BOOLEAN : LecoSendPosition(pos, asJson)
    \/ \E pos \in ActorValues, asJson \in BOOLEAN : LecoSetMoveDone(pos, asJson)

SpecStop == Init /\ [][NextStop]_vars

\* the thread spinning in stop_motion keeps running, and the actor answers a stop
\* with set_move_done, which the listener thread of the director delivers
FairStop ==
    /\ SpecStop
    /\ WF_vars(LecoStopEnd)
    /\ WF_vars(lecoPc = "stop_wait" /\
               \E pos \in ActorValues, asJson \in BOOLEAN : LecoSetMoveDone(pos, asJson))

\* the preset panel
SpecPresets == Init /\ [][NextPresets]_vars

\* the encoder detection
SpecEncoder == Init /\ [][NextEncoder]_vars

\* the thread inside the detection loop keeps running; nothing makes the axis finish
FairEncoder == SpecEncoder /\ WF_vars(EncoderPoll)


(***************************************************************************)
(* The claims                                                              *)
(***************************************************************************)
ActiveMonitors == {i \in 1..Len(monitors) : Active(monitors[i])}

\* C1: at most one position monitor is active at any time: a new monitor starts
\* only after the previous one has fully stopped.
C1_AtMostOneActiveMonitor == Cardinality(ActiveMonitors) <= 1

FinishedAtMostOnce ==
    \A i \in 1..Len(monitors) :
        /\ monitors[i].fin <= 1
        /\ monitors[i].st = "Stopped" <=> monitors[i].fin = 1

StopRequested(i) == i <= Len(monitors) /\ monitors[i].stopReq > 0

HasFinished(i) == i <= Len(monitors) /\ monitors[i].fin = 1

LifecycleEdges ==
    { <<"Idle", "Running">>, <<"Running", "Stopping">>, <<"Stopping", "Stopped">> }

LifecycleStep ==
    /\ Len(monitors') >= Len(monitors)
    /\ \A i \in 1..Len(monitors') :
          IF i > Len(monitors)
          THEN monitors'[i].st = "Idle" /\ monitors'[i].initDone
          ELSE LET a == monitors[i].st
                   b == monitors'[i].st
               IN  /\ a = b \/ <<a, b>> \in LifecycleEdges
                   /\ a # b /\ b = "Running" => monitors[i].initDone
                   /\ a # b /\ b = "Stopping" => monitors[i].stopReq > 0

C4_ReachedSeenAtPoll ==
    chk.pc = "done" =>
        /\ reachedAt >= 0 /\ reachedAt <= chk.pollAt => chk.result
        /\ chk.result => reachedAt >= 0 /\ reachedAt <= chk.pollAt
        /\ chk.retAt = chk.pollAt

\* the flag came up while the check slept, and the check returned true at its read
C4_Witness ==
    /\ chk.pc = "done" /\ chk.result
    /\ reachedAt > chk.start /\ reachedAt <= chk.pollAt
    /\ chk.retAt = chk.pollAt

\* C5 as stated: the check returns false only at or after the configured timeout, and
\* no later than the timeout plus one step.
C5_FalseOnlyAtTimeout ==
    chk.pc = "done" /\ ~chk.result =>
        /\ chk.retAt - moveStart >= TimeoutSetting
        /\ chk.retAt - moveStart <= TimeoutSetting + SleepMs

\* C5 amended: every call of the check ends one fixed sleep of 200 ms after it was
\* called, whatever the timeout; it returns false exactly when the flag is not up at
\* that moment, and it issues no motion command.
C5_CheckEndsAfterOneSleep ==
    chk.pc = "done" =>
        /\ chk.retAt = chk.start + SleepMs
        /\ ~chk.result <=> (reachedAt < 0 \/ reachedAt > chk.retAt)
        /\ pollCmds = chk.cmdsAtCall

\* a check that returned false long before the timeout, the flag still down
C5_Witness ==
    /\ chk.pc = "done" /\ ~chk.result /\ ~reached
    /\ chk.retAt - moveStart < TimeoutSetting

\* C6: a move_abs on an initialized plugin is always accepted and issued: when it has
\* returned, the last device command is move_to with its position and the target is
\* that position, whatever moves and stops came before.
C6_MoveAcceptedAfterStop ==
    outcome.op = "move_abs" =>
        /\ outcome.result = "ok" <=> (controller.bound /\ controller.motor)
        /\ outcome.result = "ok" =>
              /\ hist[Len(hist)] = [op |-> "move_to", arg |-> outcome.arg]
              /\ motor.target = outcome.arg

\* move_to, stop, and the next move_to issued while the axis is away from the target
C6_Witness ==
    /\ outcome.op = "move_abs" /\ outcome.result = "ok"
    /\ Len(hist) = 4
    /\ hist[1].op = "move_to" /\ hist[2].op = "stop"
    /\ hist[3].op = "set_absolute_motion" /\ hist[4].op = "move_to"
    /\ hist[4].arg # hist[1].arg
    /\ motor.actual # motor.target

\* C7 as stated: after the setter was given one of the nine labels, the getter returns
\* that label.
C7_ReadsBackLabel ==
    (/\ outcome.op = "microstep_resolution" /\ outcome.result = "ok"
     /\ outcome.arg \in Range(MicrostepLabels))
        => GetMicrostepResolution(motor) = outcome.arg

\* C7 amended: after the setter was given the i-th of the nine labels, the getter
\* returns the i-th name of possible_microstep_resolution.
C7_ReadsBackEnumName ==
    (/\ outcome.op = "microstep_resolution" /\ outcome.result = "ok"
     /\ outcome.arg \in Range(MicrostepLabels))
        => \E i \in 1..9 :
              /\ MicrostepLabels[i] = outcome.arg
              /\ GetMicrostepResolution(motor) = possible_microstep_resolution[i]

\* the label 'Full' set and read back as its enum name
C7_Witness ==
    /\ outcome.op = "microstep_resolution" /\ outcome.result = "ok"
    /\ outcome.arg = "Full"
    /\ GetMicrostepResolution(motor) = "MicrostepResolutionFullstep"

FailedOpen == outcome.op = "ini_stage" /\ ~lastConnect.opened

C9_UnknownUnitsPassThrough ==
    (lecoOutcome.op # "none" /\ lecoOutcome.units \notin SupportedUnits) =>
        /\ lecoOutcome.result = "ok"
        /\ lecoOutcome.op \in {"move_abs", "move_rel"} /\ sent.op = lecoOutcome.op
              => sent.position = lecoOutcome.arg

\* C11: on an initialized plugin move_home, that is controller.move_to_reference(),
\* completes without error, hands the device the one command of move_to(0) and
\* leaves the target where move_to(0) leaves it.
C11_MoveToReferenceIsMoveToZero ==
    (outcome.op = "move_home" /\ controller.bound /\ controller.motor) =>
        /\ outcome.result = "ok"
        /\ trace = << [op |-> "move_to", arg |-> 0] >>
        /\ motor.target = MoveTo(motor, 0).target

\* C12: every motion handler of an initialized plugin hands the device two commands,
\* the positioning-mode flag and then the move: set_absolute_motion and move_to for
\* move_abs, move_home and a go_to_ favourite, with RelativePositioningOption 0 when
\* move_to is issued; set_relative_motion and move_by for move_rel, with the option 1.
C12_ModeFlagBeforeEveryMove ==
    (/\ outcome.op \in {"move_abs", "move_home", "go_to", "move_rel"}
     /\ controller.bound /\ controller.motor) =>
        /\ Len(trace) = 2
        /\ outcome.op = "move_rel" =>
              /\ trace[1] = [op |-> "set_relative_motion", arg |-> 1]
              /\ trace[2].op = "move_by"
              /\ motor.relopt = 1
        /\ outcome.op # "move_rel" =>
              /\ trace[1] = [op |-> "set_absolute_motion", arg |-> 0]
              /\ trace[2].op = "move_to"
              /\ motor.relopt = 0

ClosedLoopReturn == cl.pc = "polling" /\ cl'.pc = "idle"

\* C13: set_closed_loop_mode writes ClosedLoopMode before it polls; it returns only
\* when the CLInitFlag read equals the state asked for, after any number of sleeps;
\* and once the axis reports that value the call returns.
C13_ClosedLoopWaitsForFlag ==
    /\ [](cl.pc = "polling" => clMode = (IF cl.req THEN 1 ELSE 0))
    /\ [][ClosedLoopReturn => clFlag = (IF cl.req THEN 1 ELSE 0)]_vars
    /\ (cl.pc = "polling" /\ clFlag = (IF cl.req THEN 1 ELSE 0)) ~> (cl.pc = "idle")

\* a call that switched the closed loop off returned after the loop had slept as often
\* as the record counts
C13_Witness ==
    /\ outcome = [op |-> "closed_loop", arg |-> FALSE, result |-> "ok"]
    /\ cl.pc = "idle" /\ cl.polls = MaxClPolls /\ cl.flagAtReturn = 0 /\ clFlag = 0

\* C14: whatever values the microstep_resolution setter was called with, labels of
\* the list or not, the microstep resolution of the axis is one of the nine names
\* of possible_microstep_resolution.
C14_MicrostepAlwaysEnumerated ==
    motor.microstep_resolution \in Range(possible_microstep_resolution)

\* the setter was handed a value of no branch after a label other than the default
C14_Witness ==
    /\ outcome = [op |-> "microstep_resolution", arg |-> OtherLabel, result |-> "ok"]
    /\ motor.microstep_resolution = possible_microstep_resolution[1]

\* C15: whatever max_current, standby_current and boost_current were written with,
\* each current stored on the axis lies in 0..240.
C15_CurrentsInRange ==
    \A name \in CurrentNames : motor[name] \in 0..CurrentLimit

\* C16: after any sequence of connect and close calls a port is listed in the
\* manager's connections if and only if a connect of it succeeded with no close of
\* it since, and no port is listed twice.
C16_ConnectionsMatchOpenPorts ==
    /\ Range(connections) = mgrOpen
    /\ \A i, j \in 1..Len(connections) : connections[i] = connections[j] => i = j

\* C17: once the actor has sent its first message after ini_stage, the payload
\* encoding of the session is the one that message asked for, JSON or binary,
\* whatever the shape of the messages that followed.
C17_EncodingFixedByFirstMessage ==
    firstMsg # "none" => (json <=> firstMsg = "json")

\* the name the loader owes entry i of a list
OwedName(attr, i) == IF attr.hasName THEN attr.name ELSE Str(i - 1)

\* C18: of a list of n entries clean_fav_pos_dict returns n params in the same
\* order, entry i keeping its name or getting str(i), counted from 0, and likewise
\* for the children list of every group; a second run on the same file returns the
\* same params.
C18_FavNamesByIndex ==
    /\ (fav.result = "ok" /\ fav.input.kind = "list") =>
           /\ Len(fav.output) = Len(fav.input.items)
           /\ \A i \in 1..Len(fav.input.items) :
                 /\ fav.output[i].name = OwedName(fav.input.items[i], i)
                 /\ fav.output[i].hasChildren =
                        (fav.input.items[i].type = "group"
                         /\ fav.input.items[i].hasChildren)
    /\ fav.result = "ok" =>
           \A i \in 1..Len(fav.output) :
              LET kids == fav.input.items[i].children
              IN  (fav.output[i].hasChildren /\ kids.kind = "list") =>
                     /\ Len(fav.output[i].children) = Len(kids.items)
                     /\ \A j \in 1..Len(kids.items) :
                           fav.output[i].children[j].name = OwedName(kids.items[j], j)
    /\ fav.reloaded => fav.again = fav.output

\* a list whose second entry is a group with two children without a name, loaded
\* twice: the children are named "0" and "1"
C18_Witness ==
    /\ fav.result = "ok" /\ fav.reloaded /\ fav.input.kind = "list"
    /\ Len(fav.input.items) = 2
    /\ fav.input.items[2].type = "group"
    /\ fav.input.items[2].children.kind = "list"
    /\ Len(fav.input.items[2].children.items) = 2
    /\ \A j \in 1..2 : ~fav.input.items[2].children.items[j].hasName
    /\ fav.output[2].children[1].name = "0"
    /\ fav.output[2].children[2].name = "1"

\* the step of set_reference_position on an initialized plugin
SetReferenceStep ==
    /\ controller.bound /\ controller.motor
    /\ CommitSetReferencePosition(TRUE)

\* C19: set_reference_position zeroes the position counter and nothing else: after
\* it actual_position is 0, no command went to the axis, and the target, the ramp,
\* the currents and the microstep resolution are as before.
C19_SetReferenceOnlyZeroes ==
    [][SetReferenceStep =>
          /\ motor'.actual = 0
          /\ hist' = hist /\ trace' = << >>
          /\ motor' = [motor EXCEPT !.actual = 0]]_vars

\* the counter was zeroed away from zero while the axis was on its way to a target
C19_Witness ==
    /\ outcome = [op |-> "set_reference_position", arg |-> TRUE, result |-> "ok"]
    /\ motor.actual = 0 /\ motor.target = MaxPos
    /\ Len(hist) > 0 /\ hist[Len(hist)].op = "move_to"

\* C20: every stop_motion of an initialized plugin hands out exactly one stop
\* command to the axis and then exactly one move_done signal, in that order,
\* whether a move is pending or not.
C20_StopThenMoveDone ==
    outcome = [op |-> "stop_motion", arg |-> "none", result |-> "ok"] =>
        /\ trace = << [op |-> "stop", arg |-> 0], [op |-> "move_done", arg |-> 0] >>
        /\ Len(hist) > 0 /\ hist[Len(hist)] = [op |-> "stop", arg |-> 0]

\* stop_motion came right after a move_to whose target the axis had not reached
C20_Witness ==
    /\ outcome = [op |-> "stop_motion", arg |-> "none", result |-> "ok"]
    /\ Len(hist) >= 2
    /\ hist[Len(hist) - 1] = [op |-> "move_to", arg |-> MaxPos]
    /\ motor.actual # MaxPos
    /\ Len(trace) = 2


\* C21: goto_preset(i) issues exactly one absolute move, to the position stored for
\* preset i, if and only if an actuator module is connected and preset i is enabled;
\* otherwise it issues nothing; in no case does it change a preset's position or
\* enabled parameter.
C21_GotoPresetMovesIffReady ==
    [][\A i \in Presets, raises \in BOOLEAN :
          GotoPreset(i, raises) =>
              /\ panel'.issued =
                     IF panel.actuator_module /\ panel.enabled[i]
                     THEN << [op |-> "move_abs", arg |-> panel.position[i]] >>
                     ELSE << >>
              /\ panel'.position = panel.position
              /\ panel'.enabled = panel.enabled
              /\ panel'.actuator_module = panel.actuator_module]_vars

\* a click moved to a preset whose position the user had changed, another preset
\* being disabled
C21_Witness ==
    /\ panel.call.op = "goto_preset"
    /\ panel.actuator_module
    /\ panel.enabled[panel.call.preset]
    /\ panel.position[panel.call.preset] # DefaultPosition(panel.call.preset)
    /\ panel.issued = << [op |-> "move_abs", arg |-> panel.position[panel.call.preset]] >>
    /\ \E j \in Presets : ~panel.enabled[j]

EncoderReturned == enc.pc = "idle" /\ enc.result \in {"detected", "timeout"}

\* C23 as stated: a detection sleeps at most 50 times (5 s at 100 ms); it ends
\* with the resolution read from the device, or with the timeout status and the
\* setting unchanged; either way detect_encoder is False again.
C23_DetectionWithinFiftyPolls ==
    /\ enc.sleeps <= 50
    /\ EncoderReturned => ~enc.detect_encoder
    /\ enc.result = "detected" => enc.encoder_resolution = enc.resolution
    /\ enc.result = "timeout" =>
           /\ enc.encoder_resolution = enc.before
           /\ enc.status = "Timeout while detecting encoder resolution"

\* close() has returned and no handler has run since
CloseReturned == pc = "idle" /\ outcome.op = "close" /\ outcome.result = "ok"

\* C24: after close() has returned the monitor of the plugin has been asked to stop
\* and has finished, the port is not in the manager's connections, the controller
\* is None, and no position update reaches on_position_update any more.
C24_TeardownComplete ==
    [][/\ CloseReturned' =>
              /\ pos_worker' # 0 =>
                    /\ monitors'[pos_worker'].stopReq > 0
                    /\ monitors'[pos_worker'].st = "Stopped"
              /\ SelectedDevice \notin Range(connections')
              /\ controller' = NoController
       /\ CloseReturned => ~OnPositionUpdate]_vars

\* a motion handler of the remote plugin runs (stop_motion in its two steps)
LecoMotionCommand ==
    \/ \E v \in Values : LecoMoveAbs(v)
    \/ \E v \in Values : LecoMoveRel(v)
    \/ LecoMoveHome
    \/ LecoStopBegin
    \/ LecoStopEnd

\* C25: move_abs, move_rel, move_home and stop_motion of the remote plugin leave
\* the stored current value as it is, so that without a message of the actor it
\* stays the value the actor reported last.
C25_MotionKeepsCurrentValue ==
    [][LecoMotionCommand => current_value' = current_value]_vars

\* C26: stop_motion publishes 'move_stop' only after a set_move_done that came in
\* after this call's stop request went out to the actor.
C26_StopWaitsForOwnDone == published.type = "move_stop" => doneFresh

\* C27: a stop_motion that is waiting for _move_done_sig eventually leaves its loop
\* and returns, given that the actor answers the stop with set_move_done.
C27_StopMotionReturns == (lecoPc = "stop_wait") ~> (lecoPc = "idle")

\* a stop_motion that the actor answered while it waited, and that returned
C27_Witness ==
    /\ lecoPc = "idle"
    /\ lecoOutcome.op = "stop_motion"
    /\ sent.op = "stop_motion"
    /\ lecoOps = PublishOps(published) /\ published.type \in {"move_stop", "none"}
    /\ doneFresh /\ move_done_sig

\* transport interfaces that are open: connect opens one, and nothing the manager
\* or the plugin calls closes one (TrinamicController.close is never called, and the
\* controller's interface is None)
OpenInterfaces == nOpened

\* C28: when no handler is running, as many transport interfaces are open as ports
\* are listed in the manager's connections, and the interface opened last is that
\* of a listed port.
C28_OpenInterfacesAreListed ==
    pc = "idle" =>
        /\ OpenInterfaces = Len(connections)
        /\ interface # "none" => interface \in Range(connections)

\* C29: a monitor samples the device only while the port of its session is listed
\* in the manager's connections.
C29_NoSampleAfterSessionRemoved ==
    [][\A i \in 1..Len(monitors) :
          MonitorSample(i) => SelectedDevice \in Range(connections)]_vars

\* C30: a handler that publishes 'move_start' has sent its move command to the
\* actor before it publishes.
C30_SendBeforeMoveStart ==
    published.type = "move_start" => lecoOps = << "send", "publish" >>

====
